---- MODULE Spec2Model ----
(***************************************************************************)
(* Model of tools.js: the ticket / invoice normalizers, the Approved       *)
(* reconciler (runApproved), the Remittance reconciler (runRemit) and the  *)
(* two button handlers that start them.                                    *)
(*                                                                         *)
(* A JavaScript string is a sequence of one-character strings.  A cell of  *)
(* a sheet is a record [kind, n, s]: kind "str" carries the characters s,  *)
(* kind "num" the integer n, kind "null" stands for null / undefined.      *)
(* The glyphs of the status messages are written in ASCII: "..." for the   *)
(* ellipsis, "[ok]" for the check mark and "[x]" for the cross mark.       *)
(***************************************************************************)
EXTENDS Integers, Sequences, FiniteSets, TLC

VARIABLES
  files,      \* the four file inputs: picker id -> selected file (or NoFile)
  runs,       \* one record per handler invocation, in click order
  logText,    \* textContent of the two status elements
  nx,         \* normalizer harness: the value handed to a normalizer
  nfn,        \* normalizer harness: which normalizer
  nr,         \* normalizer harness: normalize(nx), or Unset
  nrr         \* normalizer harness: normalize(normalize(nx)), or Unset

vars == <<files, runs, logText, nx, nfn, nr, nrr>>

(***************************************************************************)
(* Bounds                                                                  *)
(***************************************************************************)
MaxLen == 3        \* longest string handed to the normalizer harness
MaxRows == 2       \* most data rows in an input sheet
MaxRuns == 1       \* handler invocations in one behaviour

(***************************************************************************)
(* Cells and strings                                                       *)
(***************************************************************************)
Str(s) == [kind |-> "str", n |-> 0, s |-> s]
Num(n) == [kind |-> "num", n |-> n, s |-> <<>>]
Null == [kind |-> "null", n |-> 0, s |-> <<>>]
Empty == Str(<<>>)

Digits == <<"0", "1", "2", "3", "4", "5", "6", "7", "8", "9">>

RECURSIVE NatToString(_)
NatToString(n) ==
  IF n < 10 THEN <<Digits[n + 1]>>
  ELSE NatToString(n \div 10) \o <<Digits[(n % 10) + 1]>>

\* String(x) for a cell value
String(x) ==
  CASE x.kind = "str" -> x.s
    [] x.kind = "num" -> IF x.n < 0 THEN <<"-">> \o NatToString(-x.n)
                         ELSE NatToString(x.n)
    [] OTHER -> <<"n", "u", "l", "l">>

\* white space as String.prototype.trim sees it (space and tab of the alphabet)
IsSpace(c) == c \in {" ", "\t"}

RECURSIVE trimStart(_)
trimStart(s) ==
  IF s # <<>> /\ IsSpace(Head(s)) THEN trimStart(Tail(s)) ELSE s

RECURSIVE trimEnd(_)
trimEnd(s) ==
  IF s # <<>> /\ IsSpace(s[Len(s)]) THEN trimEnd(SubSeq(s, 1, Len(s) - 1)) ELSE s

trim(s) == trimEnd(trimStart(s))

endsWith(s, suffix) ==
  /\ Len(s) >= Len(suffix)
  /\ SubSeq(s, Len(s) - Len(suffix) + 1, Len(s)) = suffix

\* s.replaceAll(c, "")
replaceAll(s, c) == SelectSeq(s, LAMBDA ch : ch # c)

RECURSIVE split(_, _)
\* s.split(sep) for a one-character separator
split(s, sep) ==
  IF \A i \in 1..Len(s) : s[i] # sep THEN <<s>>
  ELSE LET k == CHOOSE i \in 1..Len(s) : s[i] = sep /\ \A j \in 1..(i - 1) : s[j] # sep
       IN <<SubSeq(s, 1, k - 1)>> \o split(SubSeq(s, k + 1, Len(s)), sep)

(***************************************************************************)
(* Normalizer                                                              *)
(***************************************************************************)
normalizeTicket(x) ==
  IF x.kind = "null" THEN <<>>
  ELSE LET s0 == trim(String(x))
           s1 == IF endsWith(s0, <<".", "0">>) THEN SubSeq(s0, 1, Len(s0) - 2) ELSE s0
       IN replaceAll(replaceAll(s1, ","), " ")

splitAxonTickets(cell) ==
  IF cell.kind = "null" THEN <<>>
  ELSE LET s == trim(String(cell))
           parts == split(s, ",")
       IN IF s = <<>> THEN <<>>
          ELSE SelectSeq([i \in 1..Len(parts) |-> trim(parts[i])], LAMBDA p : p # <<>>)

normalizeInvoice(x) ==
  IF x.kind = "null" THEN <<>>
  ELSE LET s0 == trim(String(x))
           s1 == IF endsWith(s0, <<".", "0">>) THEN SubSeq(s0, 1, Len(s0) - 2) ELSE s0
       IN replaceAll(replaceAll(s1, ","), " ")

\* Number(s) for a string without ".", "e" or "x" (the amounts of the model carry
\* none): white space is trimmed, "" is 0, an optional sign and decimal digits
\* give the integer, anything else is NaN.
RECURSIVE DigitsValue(_)
DigitsValue(s) ==
  IF s = <<>> THEN 0
  ELSE 10 * DigitsValue(SubSeq(s, 1, Len(s) - 1))
       + ((CHOOSE d \in 1..10 : Digits[d] = s[Len(s)]) - 1)

IsDigits(s) == s # <<>> /\ \A i \in 1..Len(s) : \E d \in 1..10 : Digits[d] = s[i]

Number(s) ==
  LET t == trim(s)
  IN CASE t = <<>> -> [nan |-> FALSE, n |-> 0]
       [] IsDigits(t) -> [nan |-> FALSE, n |-> DigitsValue(t)]
       [] Len(t) > 1 /\ Head(t) = "-" /\ IsDigits(Tail(t)) ->
            [nan |-> FALSE, n |-> -DigitsValue(Tail(t))]
       [] Len(t) > 1 /\ Head(t) = "+" /\ IsDigits(Tail(t)) ->
            [nan |-> FALSE, n |-> DigitsValue(Tail(t))]
       [] OTHER -> [nan |-> TRUE, n |-> 0]

(***************************************************************************)
(* Literals of the program                                                 *)
(***************************************************************************)
PIONEER == <<"P", "i", "o", "n", "e", "e", "r", " ", "N", "a", "t", "u", "r", "a", "l", " ", "R", "e", "s", "o", "u", "r", "c", "e", "s">>
XTO == <<"X", "T", "O", " ", "E", "n", "e", "r", "g", "y">>
NOT_FOUND == <<"N", "O", "T", " ", "F", "O", "U", "N", "D", " ", "I", "N", " ", "A", "X", "O", "N">>
TOTAL == <<"T", "O", "T", "A", "L">>

READING == <<"Reading files...">>
GENERATING == <<"Generating Excel...">>
DONE == <<"Done [ok] Download started.">>
FAILMARK == "[x] "
SELECT_BOTH == <<"Please select both files.">>

NoError == <<>>

(***************************************************************************)
(* Files, tables, workbooks                                                *)
(***************************************************************************)
\* a file input without a selection: files[0] is undefined
NoFile == [selected |-> FALSE, decodable |-> FALSE, rows |-> <<>>]
\* a file the codec rejects
BadFile == [selected |-> TRUE, decodable |-> FALSE, rows |-> <<>>]
Sheet(rows) == [selected |-> TRUE, decodable |-> TRUE, rows |-> rows]

\* the message of the error the codec throws; its text is the codec's
DECODE_ERROR == <<"decode error">>

\* readTable: the rows of the first sheet, or the codec's exception
readTable(file) ==
  IF file.decodable THEN [threw |-> FALSE, rows |-> file.rows, message |-> NoError]
  ELSE [threw |-> TRUE, rows |-> <<>>, message |-> DECODE_ERROR]

NoWorkbook == [filename |-> "", sheets |-> <<>>]

\* downloadWorkbook: one sheet per pair, in the order given, saved as filename
downloadWorkbook(sheets, filename) ==
  [filename |-> filename,
   sheets |-> [i \in 1..Len(sheets) |-> [name |-> sheets[i][1], rows |-> sheets[i][2]]]]

\* hasColumn without the test of rows.length
hasColumn_NoLengthCheck(rows, c) == rows = <<>> \/ c \in DOMAIN rows[1]

\* rows.length && (c in rows[0])
hasColumn(rows, c) == rows # <<>> /\ c \in DOMAIN rows[1]

\* the first column of required (in order) that the validation loop rejects, or 0
firstMissing(rows, required) ==
  IF \A i \in 1..Len(required) : hasColumn(rows, required[i]) THEN 0
  ELSE CHOOSE i \in 1..Len(required) :
         /\ ~hasColumn(rows, required[i])
         /\ \A j \in 1..(i - 1) : hasColumn(rows, required[j])

(***************************************************************************)
(* Approved tool                                                           *)
(***************************************************************************)
requiredAxonApproved == <<"Invoice#", "Tickets", "Date", "Name", "Balance Due">>

\* the message of the error the validation throws, or NoError
validateApproved(axonRows, oiRows) ==
  LET k == firstMissing(axonRows, requiredAxonApproved)
  IN IF k # 0 THEN <<"AXON missing column: ", requiredAxonApproved[k]>>
     ELSE IF ~hasColumn(oiRows, "Ticket") THEN <<"OpenInvoice missing column: ", "Ticket">>
     ELSE NoError

oiSetOf(oiRows) ==
  {normalizeTicket(oiRows[i]["Ticket"]) : i \in 1..Len(oiRows)} \ {<<>>}

\* the normalized, non-empty tickets of one AXON row
normalizedTickets(r) ==
  LET ticketList == splitAxonTickets(r["Tickets"])
  IN SelectSeq([i \in 1..Len(ticketList) |-> normalizeTicket(Str(ticketList[i]))],
               LAMBDA t : t # <<>>)

\* statusOf with ">= 0" for "> 0" in the Pending test
statusOf_PendingAtZero(total, matched) ==
  IF total > 0 /\ matched = total THEN "Ready to Flip"
  ELSE IF total > 0 /\ matched >= 0 THEN "Pending"
  ELSE "Not Ready"

\* statusOf with the default status spelt differently from the Summary's filter
statusOf_Misspelt(total, matched) ==
  IF total > 0 /\ matched = total THEN "Ready to Flip"
  ELSE IF total > 0 /\ matched > 0 THEN "Pending"
  ELSE "Not ready"

statusOf(total, matched) ==
  IF total > 0 /\ matched = total THEN "Ready to Flip"
  ELSE IF total > 0 /\ matched > 0 THEN "Pending"
  ELSE "Not Ready"

approvedRow(r, oiSet) ==
  LET normalized == normalizedTickets(r)
      total == Len(normalized)
      matched == Len(SelectSeq(normalized, LAMBDA t : t \in oiSet))
  IN [c \in {"Invoice#", "Tickets", "Date", "Name", "Balance Due", "Status"} |->
        IF c = "Status" THEN statusOf(total, matched) ELSE r[c]]

approvedOut(axonRows, oiSet) ==
  [i \in 1..Len(axonRows) |-> approvedRow(axonRows[i], oiSet)]

countStatus(out, st) == Len(SelectSeq(out, LAMBDA r : r["Status"] = st))

approvedSummary(out) ==
  << [Metric |-> "Invoices (AXON rows)", Value |-> Len(out)],
     [Metric |-> "Ready to Flip", Value |-> countStatus(out, "Ready to Flip")],
     [Metric |-> "Pending", Value |-> countStatus(out, "Pending")],
     [Metric |-> "Not Ready", Value |-> countStatus(out, "Not Ready")] >>

approvedWorkbook(out) ==
  downloadWorkbook(<< <<"Summary", approvedSummary(out)>>, <<"Invoice Status", out>> >>,
                   "approved_invoice_status.xlsx")

(***************************************************************************)
(* Remittance tool                                                         *)
(***************************************************************************)
requiredAxonRemit == <<"Invoice#", "Name">>

\* the message of the error the validation throws, or NoError
validateRemit(axonRows, remRows) ==
  LET k == firstMissing(axonRows, requiredAxonRemit)
      hasReference == hasColumn(remRows, "Reference") \/ hasColumn(remRows, "Reference/Text")
  IN IF k # 0 THEN <<"AXON missing column: ", requiredAxonRemit[k]>>
     ELSE IF ~hasReference
       THEN <<"Remittance missing column: ", "Reference (or Reference/Text)">>
     ELSE IF ~hasColumn(remRows, "Net Amount")
       THEN <<"Remittance missing column: ", "Net Amount">>
     ELSE NoError

RECURSIVE newMap_FirstWins(_)
\* newMap keeping the first entry of a key
newMap_FirstWins(entries) ==
  IF entries = <<>> THEN <<>>
  ELSE LET m == newMap_FirstWins(SubSeq(entries, 1, Len(entries) - 1))
           e == entries[Len(entries)]
       IN [k \in DOMAIN m \cup {e[1]} |-> IF k \in DOMAIN m THEN m[k] ELSE e[2]]

RECURSIVE newMap(_)
\* new Map(entries): entries are set in order, a later one replaces an earlier one
newMap(entries) ==
  IF entries = <<>> THEN <<>>
  ELSE LET m == newMap(SubSeq(entries, 1, Len(entries) - 1))
           e == entries[Len(entries)]
       IN [k \in DOMAIN m \cup {e[1]} |-> IF k = e[1] THEN e[2] ELSE m[k]]

invToCustomerOf(axonRows) ==
  newMap(SelectSeq(
    [i \in 1..Len(axonRows) |->
       <<normalizeInvoice(axonRows[i]["Invoice#"]), trim(String(axonRows[i]["Name"]))>>],
    LAMBDA e : e[1] # <<>>))

\* ("Reference" in r) ? r["Reference"] : r["Reference/Text"]
refRawOf(r) ==
  IF "Reference" \in DOMAIN r THEN r["Reference"]
  ELSE IF "Reference/Text" \in DOMAIN r THEN r["Reference/Text"]
  ELSE Null

\* Number(String(x).replaceAll(",", "")) || 0
parseAmount(x) ==
  LET v == Number(replaceAll(String(x), ","))
  IN IF v.nan \/ v.n = 0 THEN 0 ELSE v.n

\* invToCustomer.get(inv) || "NOT FOUND IN AXON"
customerOf(invToCustomer, inv) ==
  IF inv \in DOMAIN invToCustomer /\ invToCustomer[inv] # <<>>
  THEN invToCustomer[inv]
  ELSE NOT_FOUND

pioneerCell(customer, amt) == IF customer = PIONEER THEN Num(amt) ELSE Empty

\* xtoCell filled for every customer that is not the first tracked one
xtoCell_NotPioneer(customer, amt) == IF customer # PIONEER THEN Num(amt) ELSE Empty

xtoCell(customer, amt) == IF customer = XTO THEN Num(amt) ELSE Empty

remitRow(r, invToCustomer) ==
  LET inv == normalizeInvoice(refRawOf(r))
      amt == parseAmount(r["Net Amount"])
      customer == customerOf(invToCustomer, inv)
  IN [c \in {"Reference", "Net Amount", "Customer", "PioneerNaturalResources", "XTO"} |->
        CASE c = "Reference" -> Str(inv)
          [] c = "Net Amount" -> Num(amt)
          [] c = "Customer" -> Str(customer)
          [] c = "PioneerNaturalResources" -> pioneerCell(customer, amt)
          [] OTHER -> xtoCell(customer, amt)]

\* remitStep adding every amount to pioneerTotal
remitStep_AllToPioneer(prev, row) ==
  LET amt == row["Net Amount"].n
      customer == row["Customer"].s
  IN [out |-> Append(prev.out, row),
      pioneerTotal |-> prev.pioneerTotal + amt,
      xtoTotal |-> IF customer = XTO THEN prev.xtoTotal + amt ELSE prev.xtoTotal]

\* one pass of the loop body: the locals after row is pushed
remitStep(prev, row) ==
  LET amt == row["Net Amount"].n
      customer == row["Customer"].s
  IN [out |-> Append(prev.out, row),
      pioneerTotal |-> IF customer = PIONEER THEN prev.pioneerTotal + amt
                       ELSE prev.pioneerTotal,
      xtoTotal |-> IF customer = XTO THEN prev.xtoTotal + amt ELSE prev.xtoTotal]

RECURSIVE remitLoop(_, _, _)
\* the locals out, pioneerTotal, xtoTotal after the first k remittance rows
remitLoop(remRows, invToCustomer, k) ==
  IF k = 0 THEN [out |-> <<>>, pioneerTotal |-> 0, xtoTotal |-> 0]
  ELSE remitStep(remitLoop(remRows, invToCustomer, k - 1),
                 remitRow(remRows[k], invToCustomer))

totalRow(pioneerTotal, xtoTotal) ==
  [c \in {"Reference", "Net Amount", "Customer", "PioneerNaturalResources", "XTO"} |->
     CASE c = "Reference" -> Empty
       [] c = "Net Amount" -> Empty
       [] c = "Customer" -> Str(TOTAL)
       [] c = "PioneerNaturalResources" -> Num(pioneerTotal)
       [] OTHER -> Num(xtoTotal)]

remitOut(remRows, invToCustomer) ==
  LET st == remitLoop(remRows, invToCustomer, Len(remRows))
  IN Append(st.out, totalRow(st.pioneerTotal, st.xtoTotal))

\* notFoundOf keeping every row of an untracked customer
notFoundOf_Untracked(out) ==
  SelectSeq(out, LAMBDA r : r["Customer"] \notin {Str(PIONEER), Str(XTO)})

notFoundOf(out) == SelectSeq(out, LAMBDA r : r["Customer"] = Str(NOT_FOUND))

remitWorkbook(out) ==
  downloadWorkbook(<< <<"Customer Breakdown", out>>, <<"Not Found in AXON", notFoundOf(out)>> >>,
                   "remittance_breakdown.xlsx")

(***************************************************************************)
(* Button handlers and runs                                                *)
(*                                                                         *)
(* A run is one invocation of a button handler.  It is suspended only at   *)
(* the two file reads (await file.arrayBuffer()); what lies between two    *)
(* suspensions is one step.  events is the run's history: every log call,  *)
(* every table read, the passed validation and the download, in order.     *)
(* The file handles a run took from the inputs at its click are the files  *)
(* of the inputs: a selection does not change during a behaviour.          *)
(***************************************************************************)
newRun(tool) ==
  [tool |-> tool, pc |-> "axon",
   axonRows |-> <<>>, oiSet |-> {}, invToCustomer |-> <<>>,
   events |-> <<>>, error |-> NoError, workbook |-> NoWorkbook]

logElOf(tool) == IF tool = "approved" THEN "log-approved" ELSE "log-remit"

\* log(el, msg): el.textContent = msg
log(lt, el, msg) == [lt EXCEPT ![el] = msg]

logEvent(msg) == <<"log">> \o msg

\* catch (e) { log(logEl, `[x] ${e.message}`) }: the run ends, evs happened before the throw
handlerCatch(run, evs, message) ==
  [run EXCEPT !.pc = "done", !.error = message,
              !.events = @ \o evs \o <<logEvent(<<FAILMARK>> \o message)>>]

\* the handler up to the first suspension
handlerStart(tool, axon, second) ==
  IF ~axon.selected \/ ~second.selected
  THEN handlerCatch(newRun(tool), <<>>, SELECT_BOTH)
  ELSE [newRun(tool) EXCEPT !.events = <<logEvent(READING)>>]

\* the status line after a step of run
statusAfter(lt, run) ==
  LET e == run.events[Len(run.events)]
  IN log(lt, logElOf(run.tool), Tail(e))

btnApprovedOnclick ==
  /\ Len(runs) < MaxRuns
  /\ \E run \in {handlerStart("approved", files["approved-axon"], files["approved-oi"])} :
        /\ runs' = Append(runs, run)
        /\ logText' = statusAfter(logText, run)
  /\ UNCHANGED <<files, nx, nfn, nr, nrr>>

btnRemitOnclick ==
  /\ Len(runs) < MaxRuns
  /\ \E run \in {handlerStart("remit", files["remit-axon"], files["remit-rem"])} :
        /\ runs' = Append(runs, run)
        /\ logText' = statusAfter(logText, run)
  /\ UNCHANGED <<files, nx, nfn, nr, nrr>>

\* the first readTable of a run resumes: the AXON rows, and the second read starts
axonRead(run, axonFile) ==
  LET t == readTable(axonFile)
  IN IF t.threw THEN handlerCatch(run, <<>>, t.message)
     ELSE [run EXCEPT !.pc = "second", !.axonRows = t.rows,
                      !.events = @ \o << <<"read", "axon">> >>]

\* runApproved from the second readTable to its end
approvedFinish(run, oiFile) ==
  LET t == readTable(oiFile)
      err == validateApproved(run.axonRows, t.rows)
      oiSet == oiSetOf(t.rows)
      out == approvedOut(run.axonRows, oiSet)
  IN IF t.threw THEN handlerCatch(run, <<>>, t.message)
     ELSE IF err # NoError THEN handlerCatch(run, << <<"read", "second">> >>, err)
     ELSE [run EXCEPT !.pc = "done", !.oiSet = oiSet,
                      !.workbook = approvedWorkbook(out),
                      !.events = @ \o << <<"read", "second">>, <<"validated">>,
                                        logEvent(GENERATING),
                                        <<"download", "approved_invoice_status.xlsx">>,
                                        logEvent(DONE) >>]

\* remitFinish with "Generating Excel..." logged before the validation
remitFinish_LogFirst(run, remFile) ==
  LET t == readTable(remFile)
      err == validateRemit(run.axonRows, t.rows)
      invToCustomer == invToCustomerOf(run.axonRows)
      out == remitOut(t.rows, invToCustomer)
  IN IF t.threw THEN handlerCatch(run, <<>>, t.message)
     ELSE IF err # NoError
       THEN handlerCatch(run, << <<"read", "second">>, logEvent(GENERATING) >>, err)
     ELSE [run EXCEPT !.pc = "done", !.invToCustomer = invToCustomer,
                      !.workbook = remitWorkbook(out),
                      !.events = @ \o << <<"read", "second">>, logEvent(GENERATING),
                                        <<"validated">>,
                                        <<"download", "remittance_breakdown.xlsx">>,
                                        logEvent(DONE) >>]

\* runRemit from the second readTable to its end
remitFinish(run, remFile) ==
  LET t == readTable(remFile)
      err == validateRemit(run.axonRows, t.rows)
      invToCustomer == invToCustomerOf(run.axonRows)
      out == remitOut(t.rows, invToCustomer)
  IN IF t.threw THEN handlerCatch(run, <<>>, t.message)
     ELSE IF err # NoError THEN handlerCatch(run, << <<"read", "second">> >>, err)
     ELSE [run EXCEPT !.pc = "done", !.invToCustomer = invToCustomer,
                      !.workbook = remitWorkbook(out),
                      !.events = @ \o << <<"read", "second">>, <<"validated">>,
                                        logEvent(GENERATING),
                                        <<"download", "remittance_breakdown.xlsx">>,
                                        logEvent(DONE) >>]

runApprovedAxonRead(i) ==
  /\ runs[i].tool = "approved" /\ runs[i].pc = "axon"
  /\ \E run \in {axonRead(runs[i], files["approved-axon"])} :
        /\ runs' = [runs EXCEPT ![i] = run]
        /\ logText' = IF run.pc = "done" THEN statusAfter(logText, run) ELSE logText
  /\ UNCHANGED <<files, nx, nfn, nr, nrr>>

runApprovedOiRead(i) ==
  /\ runs[i].tool = "approved" /\ runs[i].pc = "second"
  /\ \E run \in {approvedFinish(runs[i], files["approved-oi"])} :
        /\ runs' = [runs EXCEPT ![i] = run]
        /\ logText' = statusAfter(logText, run)
  /\ UNCHANGED <<files, nx, nfn, nr, nrr>>

runRemitAxonRead(i) ==
  /\ runs[i].tool = "remit" /\ runs[i].pc = "axon"
  /\ \E run \in {axonRead(runs[i], files["remit-axon"])} :
        /\ runs' = [runs EXCEPT ![i] = run]
        /\ logText' = IF run.pc = "done" THEN statusAfter(logText, run) ELSE logText
  /\ UNCHANGED <<files, nx, nfn, nr, nrr>>

runRemitRemRead(i) ==
  /\ runs[i].tool = "remit" /\ runs[i].pc = "second"
  /\ \E run \in {remitFinish(runs[i], files["remit-rem"])} :
        /\ runs' = [runs EXCEPT ![i] = run]
        /\ logText' = statusAfter(logText, run)
  /\ UNCHANGED <<files, nx, nfn, nr, nrr>>

(***************************************************************************)
(* Normalizer harness: one normalizer applied to a value, then to its own  *)
(* result.                                                                 *)
(***************************************************************************)
Unset == [set |-> FALSE, v |-> <<>>]

normalize(fn, x) == IF fn = "normalizeTicket" THEN normalizeTicket(x) ELSE normalizeInvoice(x)

applyNormalize ==
  /\ ~nr.set
  /\ nr' = [set |-> TRUE, v |-> normalize(nfn, nx)]
  /\ UNCHANGED <<files, runs, logText, nx, nfn, nrr>>

applyNormalizeAgain ==
  /\ nr.set /\ ~nrr.set
  /\ nrr' = [set |-> TRUE, v |-> normalize(nfn, Str(nr.v))]
  /\ UNCHANGED <<files, runs, logText, nx, nfn, nr>>

(***************************************************************************)
(* Inputs                                                                  *)
(***************************************************************************)
SeqsUpTo(S, n) == UNION {[1..k -> S] : k \in 0..n}

NormAlphabet == {"1", "0", ".", ",", " ", "\t"}
NormInputs == {Null, Num(10), Num(-3)} \cup {Str(s) : s \in SeqsUpTo(NormAlphabet, MaxLen)}

ApprovedColumns == {"Invoice#", "Tickets", "Date", "Name", "Balance Due"}

approvedAxonRow(t) ==
  [c \in ApprovedColumns |->
     CASE c = "Tickets" -> t
       [] c = "Invoice#" -> Num(100)
       [] c = "Date" -> Str(<<"d">>)
       [] c = "Name" -> Str(XTO)
       [] OTHER -> Num(5)]

TicketsCells ==
  {Empty, Str(<<"A", ",", "B">>), Str(<<"A", ",", " ", "A">>),
   Str(<<".", "0", ",", "7">>)}

OiTicketCells == {Str(<<"A">>), Str(<<"B", ".", "0">>), Num(7)}

restrict(r, cols) == [c \in cols |-> r[c]]

ApprovedAxonFiles ==
  {Sheet(rows) : rows \in SeqsUpTo({approvedAxonRow(t) : t \in TicketsCells}, MaxRows)}
  \cup {Sheet(<<restrict(approvedAxonRow(Empty), cols)>>) :
          cols \in {ApprovedColumns \ {"Name"}, ApprovedColumns \ {"Tickets", "Date"}}}
  \cup {BadFile, NoFile}

OiFiles ==
  {Sheet(rows) : rows \in SeqsUpTo({[c \in {"Ticket"} |-> t] : t \in OiTicketCells}, MaxRows)}
  \cup {Sheet(<<[c \in {"Number"} |-> Num(7)]>>), BadFile, NoFile}

remitAxonRow(inv, name) ==
  [c \in {"Invoice#", "Name"} |-> IF c = "Invoice#" THEN inv ELSE name]

RemitAxonRows ==
  {remitAxonRow(Str(<<"1", "0", "0", ".", "0">>), Str(<<" ">> \o PIONEER \o <<" ">>)),
   remitAxonRow(Num(100), Str(XTO)),
   remitAxonRow(Str(<<"2", ",", "0", "0">>), Str(<<"A", "c", "m", "e">>)),
   remitAxonRow(Empty, Str(PIONEER)),
   remitAxonRow(Str(<<"3", "0", "0">>), Empty)}

RemitAxonFiles ==
  {Sheet(rows) : rows \in SeqsUpTo(RemitAxonRows, MaxRows)}
  \cup {Sheet(<<[c \in {"Invoice#"} |-> Num(100)]>>), Sheet(<<[c \in {"Name"} |-> Str(XTO)]>>),
        BadFile, NoFile}

remRow(h, ref, amt) ==
  [c \in {h, "Net Amount"} |-> IF c = "Net Amount" THEN amt ELSE ref]

RemRows ==
  {remRow("Reference", Str(<<"1", "0", "0">>), Str(<<"1", ",", "0", "0", "0">>)),
   remRow("Reference", Str(<<"2", "0", "0", ".", "0">>), Num(5)),
   remRow("Reference", Str(<<"3", "0", "0">>), Str(<<"2", "5">>)),
   remRow("Reference", Str(<<"9", "9", "9">>), Str(<<"a", "b", "c">>))}

\* the same export with the reference column titled "Reference/Text"
RemTextRows ==
  {remRow("Reference/Text", Str(<<"1", "0", "0">>), Str(<<"1", ",", "0", "0", "0">>)),
   remRow("Reference/Text", Str(<<"9", "9", "9">>), Str(<<"a", "b", "c">>))}

RemFiles ==
  {Sheet(rows) : rows \in SeqsUpTo(RemRows, MaxRows)}
  \cup {Sheet(rows) : rows \in SeqsUpTo(RemTextRows, MaxRows)}
  \cup {Sheet(<<[c \in {"Reference", "Reference/Text", "Net Amount"} |->
                   CASE c = "Reference" -> Num(200)
                     [] c = "Reference/Text" -> Str(<<"9", "9", "9">>)
                     [] OTHER -> Num(5)]>>),
        Sheet(<<[c \in {"Net Amount"} |-> Num(5)]>>),
        Sheet(<<[c \in {"Reference"} |-> Num(100)]>>),
        BadFile, NoFile}

Pickers == {"approved-axon", "approved-oi", "remit-axon", "remit-rem"}

InitIdle ==
  /\ runs = <<>>
  /\ logText = [el \in {"log-approved", "log-remit"} |-> <<>>]

\* the files of one tab are selected, the inputs of the other tab are empty
Init ==
  /\ InitIdle
  /\ \/ \E a \in ApprovedAxonFiles, o \in OiFiles :
          files = [p \in Pickers |->
                     CASE p = "approved-axon" -> a [] p = "approved-oi" -> o [] OTHER -> NoFile]
     \/ \E a \in RemitAxonFiles, r \in RemFiles :
          files = [p \in Pickers |->
                     CASE p = "remit-axon" -> a [] p = "remit-rem" -> r [] OTHER -> NoFile]
  /\ nx = Null /\ nfn = "normalizeTicket" /\ nr = Unset /\ nrr = Unset

Next ==
  \/ btnApprovedOnclick
  \/ btnRemitOnclick
  \/ \E i \in 1..Len(runs) : runApprovedAxonRead(i)
  \/ \E i \in 1..Len(runs) : runApprovedOiRead(i)
  \/ \E i \in 1..Len(runs) : runRemitAxonRead(i)
  \/ \E i \in 1..Len(runs) : runRemitRemRead(i)

Spec == Init /\ [][Next]_vars

InitNorm ==
  /\ InitIdle
  /\ files = [p \in Pickers |-> NoFile]
  /\ nx \in NormInputs
  /\ nfn \in {"normalizeTicket", "normalizeInvoice"}
  /\ nr = Unset /\ nrr = Unset

NextNorm == applyNormalize \/ applyNormalizeAgain

SpecNorm == InitNorm /\ [][NextNorm]_vars

(***************************************************************************)
(* Claims                                                                  *)
(***************************************************************************)
Finished(run) == run.pc = "done" /\ run.workbook # NoWorkbook

ApprovedDone == {i \in 1..Len(runs) : runs[i].tool = "approved" /\ Finished(runs[i])}

RemitDone == {i \in 1..Len(runs) : runs[i].tool = "remit" /\ Finished(runs[i])}

\* the rows the files of the inputs hold
AxonRowsIn(tool) ==
  IF tool = "approved" THEN files["approved-axon"].rows ELSE files["remit-axon"].rows

SecondRowsIn(tool) ==
  IF tool = "approved" THEN files["approved-oi"].rows ELSE files["remit-rem"].rows

\* the per-remittance rows of a Customer Breakdown sheet
PerRow(out) == SubSeq(out, 1, Len(out) - 1)

RECURSIVE ColumnSum(_, _, _)
\* the sum of column col over the first k rows, an empty cell counting as 0
ColumnSum(rows, col, k) ==
  IF k = 0 THEN 0
  ELSE ColumnSum(rows, col, k - 1) + (IF rows[k][col].kind = "num" THEN rows[k][col].n ELSE 0)

RECURSIVE AmountSum(_, _, _)
\* the sum of Net Amount over those of the first k rows whose index is in keep
AmountSum(rows, keep, k) ==
  IF k = 0 THEN 0
  ELSE AmountSum(rows, keep, k - 1) + (IF k \in keep THEN rows[k]["Net Amount"].n ELSE 0)

\* C1: normalizeTicket and normalizeInvoice are idempotent: applying the
\* normalizer to its own result gives that result again, for every input.
C1_Idempotent == nrr.set => nrr.v = nr.v

\* C2: each row of the Invoice Status sheet has Status "Ready to Flip" exactly
\* when total > 0 and matched = total, "Pending" exactly when total > 0 and
\* 0 < matched < total, and "Not Ready" in every other case, where total counts
\* the row's non-empty normalized tickets (duplicates counted) and matched those
\* of them in the Open-Invoice Ticket Set.
C2_StatusDecision ==
  \A i \in ApprovedDone :
    LET out == runs[i].workbook.sheets[2].rows
    IN /\ Len(out) = Len(runs[i].axonRows)
       /\ \A k \in 1..Len(out) :
            LET tickets == normalizedTickets(runs[i].axonRows[k])
                total == Len(tickets)
                matched == Cardinality({j \in 1..total : tickets[j] \in runs[i].oiSet})
                st == out[k]["Status"]
                ready == total > 0 /\ matched = total
                pending == total > 0 /\ 0 < matched /\ matched < total
            IN /\ st \in {"Ready to Flip", "Pending", "Not Ready"}
               /\ (st = "Ready to Flip") <=> ready
               /\ (st = "Pending") <=> pending
               /\ (st = "Not Ready") <=> (~ready /\ ~pending)

C2_Witness ==
  \E i \in ApprovedDone :
    LET out == runs[i].workbook.sheets[2].rows
    IN /\ Len(out) = 2
       /\ out[1]["Status"] = "Pending"
       /\ out[2]["Status"] = "Ready to Flip"
       /\ Len(normalizedTickets(runs[i].axonRows[2])) = 2

\* C3: in every Approved workbook the three status counts of the Summary sheet
\* add up to its invoice count, which is the number of AXON rows and the number
\* of rows of the Invoice Status sheet.
C3_SummaryCounts ==
  \A i \in ApprovedDone :
    LET summary == runs[i].workbook.sheets[1].rows
        out == runs[i].workbook.sheets[2].rows
    IN /\ Len(summary) = 4
       /\ summary[2].Value + summary[3].Value + summary[4].Value = summary[1].Value
       /\ summary[1].Value = Len(AxonRowsIn("approved"))
       /\ summary[1].Value = Len(out)

C3_Witness ==
  \E i \in ApprovedDone :
    LET summary == runs[i].workbook.sheets[1].rows
    IN summary[1].Value = 2 /\ summary[3].Value = 1 /\ summary[4].Value = 1

\* C4: in every Customer Breakdown sheet exactly one row follows the
\* per-remittance rows; it has Customer "TOTAL", empty Reference and Net Amount,
\* and its PioneerNaturalResources and XTO values are the sums of those columns
\* over the rows before it, an empty cell counting as 0.
C4_TotalRow ==
  \A i \in RemitDone :
    LET out == runs[i].workbook.sheets[1].rows
        n == Len(SecondRowsIn("remit"))
    IN /\ Len(out) = n + 1
       /\ out[n + 1]["Customer"] = Str(TOTAL)
       /\ out[n + 1]["Reference"] = Empty
       /\ out[n + 1]["Net Amount"] = Empty
       /\ out[n + 1]["PioneerNaturalResources"] = Num(ColumnSum(out, "PioneerNaturalResources", n))
       /\ out[n + 1]["XTO"] = Num(ColumnSum(out, "XTO", n))

C4_Witness ==
  \E i \in RemitDone :
    LET out == runs[i].workbook.sheets[1].rows
    IN /\ Len(out) = 3
       /\ out[1]["PioneerNaturalResources"] = Num(1000)
       /\ out[2]["PioneerNaturalResources"] = Empty
       /\ out[3]["PioneerNaturalResources"] = Num(1000)

\* C5: for every remittance row the Customer is the name the Invoice->Customer
\* Map stores for the normalized reference whenever that reference is a key of
\* the map, and "NOT FOUND IN AXON" only when it is not a key.
C5_CustomerLookup ==
  \A i \in RemitDone :
    LET out == runs[i].workbook.sheets[1].rows
        rem == SecondRowsIn("remit")
        m == runs[i].invToCustomer
    IN \A k \in 1..Len(rem) :
         LET inv == normalizeInvoice(refRawOf(rem[k]))
         IN /\ inv \in DOMAIN m => out[k]["Customer"] = Str(m[inv])
            /\ out[k]["Customer"] = Str(NOT_FOUND) => inv \notin DOMAIN m

\* C6: every remittance row whose normalized reference is no key of the map
\* yields a row with Customer "NOT FOUND IN AXON" that is in the Not Found in
\* AXON sheet and adds nothing to either bucket total; that sheet is exactly the
\* per-remittance rows with this Customer, in order, without the TOTAL row.
C6_NotFoundSheet ==
  \A i \in RemitDone :
    LET out == runs[i].workbook.sheets[1].rows
        notFound == runs[i].workbook.sheets[2].rows
        rem == SecondRowsIn("remit")
        n == Len(rem)
        m == runs[i].invToCustomer
        known == {k \in 1..n : normalizeInvoice(refRawOf(rem[k])) \in DOMAIN m}
    IN /\ \A k \in (1..n) \ known :
            /\ out[k]["Customer"] = Str(NOT_FOUND)
            /\ \E j \in 1..Len(notFound) : notFound[j] = out[k]
            /\ out[k]["PioneerNaturalResources"] = Empty
            /\ out[k]["XTO"] = Empty
       /\ out[n + 1]["PioneerNaturalResources"]
            = Num(AmountSum(out, {k \in known : out[k]["Customer"] = Str(PIONEER)}, n))
       /\ out[n + 1]["XTO"]
            = Num(AmountSum(out, {k \in known : out[k]["Customer"] = Str(XTO)}, n))
       /\ notFound = SelectSeq(SubSeq(out, 1, n), LAMBDA r : r["Customer"] = Str(NOT_FOUND))
       /\ \A j \in 1..Len(notFound) : notFound[j]["Customer"] # Str(TOTAL)

C6_Witness ==
  \E i \in RemitDone :
    LET out == runs[i].workbook.sheets[1].rows
        notFound == runs[i].workbook.sheets[2].rows
    IN /\ Len(out) = 3
       /\ Len(notFound) = 1
       /\ notFound[1] = out[2]
       /\ out[1]["Customer"] = Str(XTO)
       /\ normalizeInvoice(refRawOf(SecondRowsIn("remit")[2])) \notin DOMAIN runs[i].invToCustomer

\* the columns of required that a sheet lacks: it has no rows, or its first row
\* has no such key
Lacking(rows, required) ==
  {c \in required : rows = <<>> \/ c \notin DOMAIN rows[1]}

\* the error messages that name a file and a column this file lacks
TrueMessages(tool) ==
  LET axon == AxonRowsIn(tool)
      second == SecondRowsIn(tool)
  IN IF tool = "approved"
     THEN {<<"AXON missing column: ", c>> : c \in Lacking(axon, ApprovedColumns)}
          \cup {<<"OpenInvoice missing column: ", c>> : c \in Lacking(second, {"Ticket"})}
     ELSE {<<"AXON missing column: ", c>> : c \in Lacking(axon, {"Invoice#", "Name"})}
          \cup {<<"Remittance missing column: ", c>> : c \in Lacking(second, {"Net Amount"})}
          \cup (IF Lacking(second, {"Reference", "Reference/Text"})
                     = {"Reference", "Reference/Text"}
                THEN {<<"Remittance missing column: ", "Reference (or Reference/Text)">>}
                ELSE {})

BothDecoded(tool) ==
  IF tool = "approved"
  THEN files["approved-axon"].decodable /\ files["approved-oi"].decodable
  ELSE files["remit-axon"].decodable /\ files["remit-rem"].decodable

Downloaded(run) == \E k \in 1..Len(run.events) : run.events[k][1] = "download"

C8_Buckets ==
  \A i \in RemitDone :
    LET out == runs[i].workbook.sheets[1].rows
        n == Len(out) - 1
    IN /\ \A k \in 1..n :
            LET r == out[k]
            IN /\ r["Net Amount"].kind = "num"
               /\ (r["PioneerNaturalResources"] = r["Net Amount"]) <=> (r["Customer"] = Str(PIONEER))
               /\ r["Customer"] # Str(PIONEER) => r["PioneerNaturalResources"] = Empty
               /\ (r["XTO"] = r["Net Amount"]) <=> (r["Customer"] = Str(XTO))
               /\ r["Customer"] # Str(XTO) => r["XTO"] = Empty
               /\ r["PioneerNaturalResources"] = Empty \/ r["XTO"] = Empty
       /\ out[n + 1]["PioneerNaturalResources"]
            = Num(AmountSum(out, {k \in 1..n : out[k]["Customer"] = Str(PIONEER)}, n))
       /\ out[n + 1]["XTO"]
            = Num(AmountSum(out, {k \in 1..n : out[k]["Customer"] = Str(XTO)}, n))

C8_Witness ==
  \E i \in RemitDone :
    LET out == runs[i].workbook.sheets[1].rows
    IN /\ Len(out) = 3
       /\ out[1]["Customer"] = Str(PIONEER)
       /\ out[1]["PioneerNaturalResources"] = Num(1000)
       /\ out[2]["Customer"] = Str(<<"A", "c", "m", "e">>)
       /\ out[2]["Net Amount"] = Num(5)
       /\ out[3]["XTO"] = Num(0)

\* C9: the Invoice->Customer Map has as keys exactly the non-empty normalized
\* Invoice# values of the AXON rows and maps each key to the trimmed Name of the
\* last AXON row with that normalized Invoice#; a row whose normalized Invoice#
\* is empty adds no entry.
C9_InvoiceMap ==
  \A i \in RemitDone :
    LET axon == AxonRowsIn("remit")
        m == runs[i].invToCustomer
        key(k) == normalizeInvoice(axon[k]["Invoice#"])
    IN /\ DOMAIN m = {key(k) : k \in 1..Len(axon)} \ {<<>>}
       /\ \A k \in 1..Len(axon) :
            (key(k) # <<>> /\ \A j \in (k + 1)..Len(axon) : key(j) # key(k))
              => m[key(k)] = trim(String(axon[k]["Name"]))

C9_Witness ==
  \E i \in RemitDone :
    LET axon == AxonRowsIn("remit")
    IN /\ Len(axon) = 2
       /\ normalizeInvoice(axon[1]["Invoice#"]) = normalizeInvoice(axon[2]["Invoice#"])
       /\ axon[1]["Name"] # axon[2]["Name"]
       /\ runs[i].invToCustomer = [k \in {<<"1", "0", "0">>} |-> PIONEER]

\* the history of a run that meets no error
SuccessTrace(tool) ==
  << logEvent(READING), <<"read", "axon">>, <<"read", "second">>, <<"validated">>,
     logEvent(GENERATING),
     <<"download", IF tool = "approved" THEN "approved_invoice_status.xlsx"
                   ELSE "remittance_breakdown.xlsx">>,
     logEvent(DONE) >>

\* the history of run is the success trace up to a suspension, the whole of it
\* with a download, or its first k events (k <= 3: before any status after
\* "Reading files...") followed by the failure status, without a download
TraceOk(run) ==
  LET S == SuccessTrace(run.tool)
      e == run.events
  IN \/ run.pc = "axon" /\ e = SubSeq(S, 1, 1) /\ run.workbook = NoWorkbook
     \/ run.pc = "second" /\ e = SubSeq(S, 1, 2) /\ run.workbook = NoWorkbook
     \/ run.pc = "done" /\ e = S /\ run.error = NoError /\ run.workbook # NoWorkbook
     \/ /\ run.pc = "done" /\ run.error # NoError /\ run.workbook = NoWorkbook
        /\ \E k \in 1..3 : e = SubSeq(S, 1, k) \o <<logEvent(<<FAILMARK>> \o run.error)>>

StartedWithFiles(run) == run.events[1] = logEvent(READING)

\* C10: a run started with both files selected logs "Reading files...", reads
\* both files, validates, logs "Generating Excel...", downloads one workbook and
\* logs "Done"; a throw ends it with the status line set to the failure mark and
\* the error's message, without a download; a run that has ended does nothing
\* more, so nothing is retried.
C10_RunOrder ==
  [][\A i \in 1..Len(runs') :
       /\ StartedWithFiles(runs'[i]) => TraceOk(runs'[i])
       /\ (i \in 1..Len(runs) /\ runs[i].pc = "done") => runs'[i] = runs[i]
       /\ (StartedWithFiles(runs'[i]) /\ runs'[i].pc = "done"
             /\ (i \in 1..Len(runs) => runs[i].pc # "done"))
            => logText'[logElOf(runs'[i].tool)]
                 = IF Downloaded(runs'[i]) THEN DONE ELSE <<FAILMARK>> \o runs'[i].error
     ]_vars

C10_Witness ==
  \E i \in 1..Len(runs) :
    /\ runs[i].tool = "remit" /\ runs[i].pc = "done"
    /\ runs[i].events = SubSeq(SuccessTrace("remit"), 1, 3)
                          \o <<logEvent(<<FAILMARK, "Remittance missing column: ", "Net Amount">>)>>
    /\ logText["log-remit"] = <<FAILMARK, "Remittance missing column: ", "Net Amount">>

====
